---- MODULE Spec2Model ----
(***************************************************************************)
(* Model of the CSR8645 AT-command driver (src/src/bin/csr8645/csr8645.rs). *)
(* Bytes are naturals 0..255, byte strings and Rust Strings are sequences   *)
(* of bytes (a String is a byte sequence that is valid UTF-8).  A u32 is a  *)
(* record [hi, lo] of two 16-bit halves, value hi * 65536 + lo, so that the *)
(* whole 32-bit range and its overflow are representable.                   *)
(***************************************************************************)
EXTENDS Naturals, Sequences, FiniteSets

VARIABLES
    pc,     \* where the caller's task is: "idle", "write", "read", "panicked",
            \*   or "undefined" inside a call of a method that does not exist
    op,     \* the driver operation last called ("none" before the first call)
    arg,    \* its argument (bytes, a u32, a BOOLEAN, or <<>> when it has none)
    frame,  \* the bytes handed to uart.write by the operation
    cap,    \* the length of the buffer handed to uart.read by the operation
    buf,    \* the receive buffer after uart.read returned
    rxd,    \* the bytes the Transport actually delivered into the buffer
    io,     \* the Transport calls made by the operation, in order
    res,    \* what the operation returned to its caller
    wire,   \* observer: calls, Transport calls and returns of the previous
            \*   and the current operation, in the order they happened
    prev,   \* observer: what the operation before the current one received
            \*   and returned
    link,   \* observer: the link state the operations before the current
            \*   one reported
    rxq,    \* module replies waiting unread in the Transport, oldest first,
            \*   each "own" (to the current operation's command) or "earlier"
    rxfrom, \* which of them the last uart.read delivered
    svc,    \* the service method the operation was called through
    ctl,    \* AudioController::handle_audio_transmission: where it is, its
            \*   data argument, its Transport calls so far and its result
    parked, \* a second caller's operation (same fields as the driver's)
            \*   while the first one's is in pc .. res, and the other way
    who,    \* the caller whose operation is in pc .. res: "A" or "B"
    serialized, \* whether the callers serialize their calls externally
    mq,     \* for each reply of the module not yet read, the caller whose
            \*   command elicited it and its bytes, oldest first
    slog    \* the Transport calls of each caller's latest operation, in the
            \*   order they happened

driver == <<pc, op, arg, frame, cap, buf, rxd, io, res>>
callers == <<parked, who, serialized, mq, slog>>
vars == <<pc, op, arg, frame, cap, buf, rxd, io, res,
          wire, prev, link, rxq, rxfrom, svc, ctl, parked, who, serialized,
          mq, slog>>

----------------------------------------------------------------------------
(* Bounds of the model *)

MaxStrLen == 2      \* longest generated name / pin / address / payload
MaxReplyLen == 2    \* longest generated (exhaustive) module reply
MaxBufLen == 2      \* longest caller-supplied receive buffer
MaxPending == 2     \* unread module replies the Transport holds before it
                    \*   drops further ones

(* Buffer sizes of the driver *)

ControlBufLen == 64
ScanBufLen == 512
AudioBufLen == 1024     \* the buffer of handle_audio_transmission

----------------------------------------------------------------------------
(* Byte strings *)

CRLF == <<13, 10>>
Min(a, b) == IF a <= b THEN a ELSE b
Zeros(n) == [i \in 1..n |-> 0]
Take(s, n) == SubSeq(s, 1, Min(Len(s), n))
SeqsUpTo(S, n) == UNION {[1..k -> S] : k \in 0..n}

(* u32 values *)

U32(n) == [hi |-> n \div 65536, lo |-> n % 65536]
U32Max == [hi |-> 65535, lo |-> 65535]

(* `{}` formatting of a u32: its decimal digits, most significant first *)
RECURSIVE FormatU32(_)
FormatU32(v) ==
    IF v.hi = 0 /\ v.lo < 10 THEN <<48 + v.lo>>
    ELSE LET t == (v.hi % 10) * 65536 + v.lo
             q == [hi |-> v.hi \div 10, lo |-> t \div 10]
         IN  FormatU32(q) \o <<48 + (t % 10)>>

(* String::from_utf8 / core::str::from_utf8: does the byte string decode? *)
IsCont(b, j, lo, hi) == j <= Len(b) /\ b[j] >= lo /\ b[j] <= hi

Utf8CharLen(b, i) ==
    LET c == b[i] IN
    IF c <= 127 THEN 1
    ELSE IF c >= 194 /\ c <= 223
         THEN IF IsCont(b, i + 1, 128, 191) THEN 2 ELSE 0
    ELSE IF c >= 224 /\ c <= 239
         THEN IF /\ IsCont(b, i + 1, IF c = 224 THEN 160 ELSE 128,
                                      IF c = 237 THEN 159 ELSE 191)
                 /\ IsCont(b, i + 2, 128, 191)
              THEN 3 ELSE 0
    ELSE IF c >= 240 /\ c <= 244
         THEN IF /\ IsCont(b, i + 1, IF c = 240 THEN 144 ELSE 128,
                                      IF c = 244 THEN 143 ELSE 191)
                 /\ IsCont(b, i + 2, 128, 191)
                 /\ IsCont(b, i + 3, 128, 191)
              THEN 4 ELSE 0
    ELSE 0

(* A byte string decodes iff every byte that is not a continuation byte     *)
(* (0x80..0xBF) starts a well-formed sequence and every continuation byte   *)
(* lies inside the sequence started by one of the three bytes before it.    *)
from_utf8(b) ==
    \A i \in 1..Len(b) :
        IF b[i] >= 128 /\ b[i] <= 191
        THEN \E k \in 1..3 :
                /\ i - k >= 1
                /\ b[i - k] >= 192
                /\ Utf8CharLen(b, i - k) > k
        ELSE Utf8CharLen(b, i) > 0

(* str::trim: strips the characters with the White_Space property from both *)
(* ends (U+0009..U+000D, U+0020, U+0085, U+00A0, U+1680, U+2000..U+200A,     *)
(* U+2028, U+2029, U+202F, U+205F, U+3000); U+0000 is not one of them.       *)
WsLenAt(b, i) ==
    IF i < 1 \/ i > Len(b) THEN 0
    ELSE IF (b[i] >= 9 /\ b[i] <= 13) \/ b[i] = 32 THEN 1
    ELSE IF b[i] = 194 /\ i + 1 <= Len(b) /\ b[i + 1] \in {133, 160} THEN 2
    ELSE IF i + 2 <= Len(b) /\
            \/ b[i] = 225 /\ b[i + 1] = 154 /\ b[i + 2] = 128
            \/ b[i] = 226 /\ b[i + 1] = 128 /\
                 b[i + 2] \in (128..138) \cup {168, 169, 175}
            \/ b[i] = 226 /\ b[i + 1] = 129 /\ b[i + 2] = 159
            \/ b[i] = 227 /\ b[i + 1] = 128 /\ b[i + 2] = 128
         THEN 3
    ELSE 0

RECURSIVE TrimStartIdx(_, _)
TrimStartIdx(b, i) ==
    IF WsLenAt(b, i) = 0 THEN i ELSE TrimStartIdx(b, i + WsLenAt(b, i))

WsLenEndingAt(b, j) ==
    IF WsLenAt(b, j) = 1 THEN 1
    ELSE IF WsLenAt(b, j - 1) = 2 THEN 2
    ELSE IF WsLenAt(b, j - 2) = 3 THEN 3
    ELSE 0

RECURSIVE TrimEndIdx(_, _)
TrimEndIdx(b, j) ==
    IF WsLenEndingAt(b, j) = 0 THEN j ELSE TrimEndIdx(b, j - WsLenEndingAt(b, j))

trim(b) ==
    LET t == SubSeq(b, TrimStartIdx(b, 1), Len(b))
    IN  SubSeq(t, 1, TrimEndIdx(t, Len(t)))

(* u32::from_str_radix(s, 10): [ok |-> TRUE, val |-> u32] or [ok |-> FALSE]. *)
(* An optional leading '+' is accepted, then one or more digits 0..9; a     *)
(* value above u32::MAX is an error.                                        *)
ParseFail == [ok |-> FALSE, val |-> U32(0)]

RECURSIVE ParseDigits(_, _, _)
ParseDigits(s, i, v) ==
    IF i > Len(s) THEN [ok |-> TRUE, val |-> v]
    ELSE IF s[i] < 48 \/ s[i] > 57 THEN ParseFail
    ELSE LET l == v.lo * 10 + (s[i] - 48)
             h == v.hi * 10 + (l \div 65536)
         IN  IF h > 65535 THEN ParseFail
             ELSE ParseDigits(s, i + 1, [hi |-> h, lo |-> l % 65536])

from_str_radix(s) ==
    IF Len(s) = 0 THEN ParseFail
    ELSE IF Len(s) = 1 /\ s[1] \in {43, 45} THEN ParseFail
    ELSE ParseDigits(s, IF s[1] = 43 THEN 2 ELSE 1, U32(0))

(* str::contains(needle) *)
contains(h, n) ==
    \E i \in 1..(Len(h) + 1) :
        i + Len(n) - 1 <= Len(h) /\ SubSeq(h, i, i + Len(n) - 1) = n

(* str::split('\n') collected: the segments between line-feeds, in order *)
split(s) ==
    LET lf == {i \in 1..Len(s) : s[i] = 10}
        n == Cardinality(lf)
        pos(j) == IF j = 0 THEN 0
                  ELSE IF j = n + 1 THEN Len(s) + 1
                  ELSE CHOOSE i \in lf : Cardinality({x \in lf : x <= i}) = j
    IN  [j \in 1..(n + 1) |-> SubSeq(s, pos(j - 1) + 1, pos(j) - 1)]

----------------------------------------------------------------------------
(* Results of an operation: Result<T, Csr8645Error> *)

Unit == "()"
Ok(v) == [tag |-> "Ok", val |-> v]
Err(e) == [tag |-> "Err", val |-> e]
NoRes == [tag |-> "None", val |-> Unit]
Panic == [tag |-> "Panic", val |-> Unit]

UartError == "UartError"
InvalidResponse == "InvalidResponse"

(* send_command / read_response: the Transport's result with its fault      *)
(* converted into Csr8645Error::UartError                                    *)
send_command(ok) == IF ok THEN Ok(Unit) ELSE Err(UartError)
(* read_response reporting a Transport fault as InvalidResponse *)
read_response_FaultAsInvalid(ok) == IF ok THEN Ok(Unit) ELSE Err(InvalidResponse)
read_response(ok) == IF ok THEN Ok(Unit) ELSE Err(UartError)

----------------------------------------------------------------------------
(* The command each operation builds *)

set_name_command(name) == <<65, 84, 43, 78, 65, 77, 69, 61>> \o name \o CRLF
get_name_command == <<65, 84, 43, 78, 65, 77, 69, 63, 13, 10>>
(* set_pin with the '=' of the format string left out *)
set_pin_command_NoEquals(pin) == <<65, 84, 43, 80, 73, 78>> \o pin \o CRLF
set_pin_command(pin) == <<65, 84, 43, 80, 73, 78, 61>> \o pin \o CRLF
get_pin_command == <<65, 84, 43, 80, 73, 78, 63, 13, 10>>
set_baudrate_command(baudrate) ==
    <<65, 84, 43, 66, 65, 85, 68, 61>> \o FormatU32(baudrate) \o CRLF
get_baudrate_command == <<65, 84, 43, 66, 65, 85, 68, 63, 13, 10>>
connect_command(address) == <<65, 84, 43, 67, 79, 78>> \o address \o CRLF
disconnect_command == <<65, 84>>
check_connection_status_command == <<65, 84, 43, 67, 79, 78, 63, 13, 10>>
scan_command == <<65, 84, 43, 68, 73, 83, 67, 63, 13, 10>>
get_status_command == <<65, 84, 43, 83, 84, 65, 84, 69, 63, 13, 10>>
set_notifications_command(enable) ==
    IF enable THEN <<65, 84, 43, 78, 79, 84, 73, 49, 13, 10>>
              ELSE <<65, 84, 43, 78, 79, 84, 73, 48, 13, 10>>

(* send_data and play_audio hand the caller's data to uart.write as it is *)
send_data_bytes(data) == data
(* play_audio wrapping the audio data in an AT line *)
play_audio_bytes_Framed(data) == <<65, 84>> \o data \o CRLF
play_audio_bytes(data) == data

OK_CON == <<79, 75, 43, 67, 79, 78>>

(* The Ok type of each operation's Result *)
ResultType(o) ==
    CASE o \in {"get_pin", "get_status"} -> "String"
      [] o = "get_baudrate" -> "u32"
      [] o = "check_connection_status" -> "bool"
      [] o = "scan" -> "Vec<String>"
      [] OTHER -> "()"

(* What each reading operation makes of its whole receive buffer b *)

get_name_decode(b) == Ok(Unit)

get_pin_decode(b) == IF from_utf8(b) THEN Ok(b) ELSE Err(InvalidResponse)

get_baudrate_decode(b) ==
    IF ~from_utf8(b) THEN Panic     \* .unwrap() on the Err of from_utf8
    ELSE LET p == from_str_radix(trim(b))
         IN  IF p.ok THEN Ok(p.val) ELSE Err(InvalidResponse)

(* check_connection_status decoding lossily instead of failing *)
check_connection_status_decode_Lossy(b) == Ok(contains(b, OK_CON))
(* check_connection_status answering from a link state the driver kept *)
check_connection_status_decode_Cached(b) ==
    IF link = "connected"
    THEN Ok(TRUE)
    ELSE IF from_utf8(b) THEN Ok(contains(b, OK_CON)) ELSE Err(InvalidResponse)
check_connection_status_decode(b) ==
    IF from_utf8(b) THEN Ok(contains(b, OK_CON)) ELSE Err(InvalidResponse)

scan_decode(b) == IF from_utf8(b) THEN Ok(split(b)) ELSE Err(InvalidResponse)

(* A buffer kept in the driver and filled on from where the call before  *)
(* stopped                                                                *)
get_status_decode_Accumulated(b) ==
    LET earlier == IF prev.seen /\ Len(prev.io) = 2 /\ prev.io[2].ok
                   THEN prev.io[2].data
                   ELSE <<>>
        all == Take(earlier \o b, Len(b))
    IN  IF from_utf8(all) THEN Ok(all) ELSE Err(InvalidResponse)

get_status_decode(b) == IF from_utf8(b) THEN Ok(b) ELSE Err(InvalidResponse)

ReadingOps ==
    {"get_name", "get_pin", "get_baudrate", "check_connection_status", "scan",
     "get_status"}
WriteOnlyOps ==
    {"set_name", "set_pin", "set_baudrate", "connect", "disconnect",
     "set_notifications", "send_data", "play_audio"}
ReceiveOps == {"receive_data", "receive_audio"}

Decode(o, b) ==
    CASE o = "get_name" -> get_name_decode(b)
      [] o = "get_pin" -> get_pin_decode(b)
      [] o = "get_baudrate" -> get_baudrate_decode(b)
      [] o = "check_connection_status" -> check_connection_status_decode(b)
      [] o = "scan" -> scan_decode(b)
      [] o = "get_status" -> get_status_decode(b)

(* scan reading into a buffer of the size of the other operations *)
BufLen_AlwaysControl(o) == ControlBufLen
(* `let mut buf = [0u8; N]` of each reading operation *)
BufLen(o) == IF o = "scan" THEN ScanBufLen ELSE ControlBufLen

(* The reading operations without the `?` on send_command *)
AfterWrite_IgnoreFault(o, r) ==
    IF o \in ReadingOps THEN [pc |-> "read", res |-> NoRes]
    ELSE [pc |-> "idle", res |-> r]

(* A write that is issued a second time after it succeeded *)
AfterWrite_WriteTwice(o, r) ==
    IF r.tag = "Ok" /\ Len(io) = 0 THEN [pc |-> "write", res |-> NoRes]
    ELSE IF o \in ReadingOps
    THEN IF r.tag = "Err" THEN [pc |-> "idle", res |-> r]
                          ELSE [pc |-> "read", res |-> NoRes]
    ELSE [pc |-> "idle", res |-> r]

(* Where an operation goes once its uart.write has returned r:              *)
(* `self.send_command(command).await?;` in the reading operations, the      *)
(* write's result as the operation's result in the others.                  *)
AfterWrite(o, r) ==
    IF o \in ReadingOps
    THEN IF r.tag = "Err" THEN [pc |-> "idle", res |-> r]
                          ELSE [pc |-> "read", res |-> NoRes]
    ELSE [pc |-> "idle", res |-> r]

(* A faulted read that is retried once *)
AfterRead_RetryOnFault(o, r, b) ==
    IF r.tag = "Err" /\ Len(io) <= 1 THEN [pc |-> "read", res |-> NoRes]
    ELSE IF r.tag = "Err" \/ o \in ReceiveOps THEN [pc |-> "idle", res |-> r]
    ELSE LET d == Decode(o, b)
         IN  IF d.tag = "Panic" THEN [pc |-> "panicked", res |-> NoRes]
             ELSE [pc |-> "idle", res |-> d]

(* Where an operation goes once its uart.read has returned r with the       *)
(* buffer holding b: `self.read_response(&mut buf).await?;` then the decode *)
(* in the reading operations, the read's result in receive_data/_audio.     *)
AfterRead(o, r, b) ==
    IF r.tag = "Err" \/ o \in ReceiveOps THEN [pc |-> "idle", res |-> r]
    ELSE LET d == Decode(o, b)
         IN  IF d.tag = "Panic" THEN [pc |-> "panicked", res |-> NoRes]
             ELSE [pc |-> "idle", res |-> d]

----------------------------------------------------------------------------
(* Inputs *)

StrAlphabet == {48, 58, 65}             \* '0' ':' 'A'
PayloadAlphabet == {0, 13, 255}
Address001122 ==
    <<48, 48, 58, 49, 49, 58, 50, 50, 58, 51, 51, 58, 52, 52, 58, 53, 53>>

Names == SeqsUpTo(StrAlphabet, MaxStrLen)
Pins == SeqsUpTo(StrAlphabet, MaxStrLen)
Addresses == SeqsUpTo(StrAlphabet, MaxStrLen) \cup {Address001122}
Payloads == SeqsUpTo(PayloadAlphabet, MaxStrLen)
BaudRates == {U32(0), U32(9600), U32(115200), U32Max}
CallerBuffers == {Zeros(n) : n \in 0..MaxBufLen}

(* What the module may send: every short byte string over an alphabet with  *)
(* NUL, LF, space, '+', '1', the two bytes of U+00A0 and the byte 0xFF, and  *)
(* the longer replies below.                                                *)
ReplyAlphabet == {0, 10, 32, 43, 49, 194, 160, 255}
PadTo(s, n, c) == s \o [i \in 1..(n - Len(s)) |-> c]
ScanReply == <<65, 65, 58, 66, 66, 10, 67, 67, 58, 68, 68, 10>>
BaudReplies ==
    {pre \o FormatU32(b) \o post :
        b \in BaudRates, pre \in {<<>>, <<32>>}, post \in {<<>>, CRLF}}
LongReplies ==
    { OK_CON, <<32>> \o OK_CON \o CRLF, <<79, 75, 43, 67, 79>>,
      ScanReply, <<65, 65, 58, 66, 66>>,
      <<52, 50, 57, 52, 57, 54, 55, 50, 57, 54>>,        \* "4294967296"
      <<43, 57, 54, 48, 48>>,                            \* "+9600"
      PadTo(<<57, 54, 48, 48>>, ControlBufLen, 32),
      PadTo(<<255>>, ControlBufLen, 32),
      PadTo(OK_CON, ControlBufLen, 0),
      PadTo(ScanReply, ScanBufLen, 65) }
Replies == SeqsUpTo(ReplyAlphabet, MaxReplyLen) \cup BaudReplies \cup LongReplies

(* Entries of the per-operation Transport log *)
WriteEv(data, ok) == [k |-> "write", data |-> data, cap |-> 0, ok |-> ok]
ReadEv(data, n, ok) == [k |-> "read", data |-> data, cap |-> n, ok |-> ok]

----------------------------------------------------------------------------
(* The state after Csr8645::new *)

Init ==
    /\ pc = "idle"
    /\ op = "none"
    /\ arg = <<>>
    /\ frame = <<>>
    /\ cap = 0
    /\ buf = <<>>
    /\ rxd = <<>>
    /\ io = <<>>
    /\ res = NoRes
    /\ wire = <<>>
    /\ prev = [seen |-> FALSE, io |-> <<>>, res |-> NoRes]
    /\ link = "unknown"
    /\ rxq = <<>>
    /\ rxfrom = "none"
    /\ svc = "none"
    /\ ctl = [pc |-> "idle", data |-> <<>>, log |-> <<>>, res |-> NoRes]
    /\ parked = [pc |-> "idle", op |-> "none", arg |-> <<>>, frame |-> <<>>,
                 cap |-> 0, buf |-> <<>>, rxd |-> <<>>, io |-> <<>>,
                 res |-> NoRes]
    /\ who = "A"
    /\ serialized = FALSE
    /\ mq = <<>>
    /\ slog = <<>>

(* A call that does not wait for the operation in progress to return *)
CallWrite_Reentrant(o, a, f) ==
    /\ pc' = "write"
    /\ op' = o
    /\ arg' = a
    /\ frame' = f
    /\ cap' = 0
    /\ buf' = <<>>
    /\ rxd' = <<>>
    /\ io' = <<>>
    /\ res' = NoRes

(* A call of an operation that starts with a write of command f *)
CallWrite(o, a, f) ==
    /\ pc = "idle"
    /\ pc' = "write"
    /\ op' = o
    /\ arg' = a
    /\ frame' = f
    /\ cap' = 0
    /\ buf' = <<>>
    /\ rxd' = <<>>
    /\ io' = <<>>
    /\ res' = NoRes

(* A call of an operation that only reads into the caller's buffer b *)
CallRead(o, b) ==
    /\ pc = "idle"
    /\ pc' = "read"
    /\ op' = o
    /\ arg' = b
    /\ frame' = <<>>
    /\ cap' = Len(b)
    /\ buf' = b
    /\ rxd' = <<>>
    /\ io' = <<>>
    /\ res' = NoRes

set_name == \E name \in Names : CallWrite("set_name", name, set_name_command(name))
get_name == CallWrite("get_name", <<>>, get_name_command)
set_pin == \E pin \in Pins : CallWrite("set_pin", pin, set_pin_command(pin))
get_pin == CallWrite("get_pin", <<>>, get_pin_command)
set_baudrate ==
    \E baudrate \in BaudRates :
        CallWrite("set_baudrate", baudrate, set_baudrate_command(baudrate))
get_baudrate == CallWrite("get_baudrate", <<>>, get_baudrate_command)
connect ==
    \E address \in Addresses :
        CallWrite("connect", address, connect_command(address))
disconnect == CallWrite("disconnect", <<>>, disconnect_command)
check_connection_status ==
    CallWrite("check_connection_status", <<>>, check_connection_status_command)
scan == CallWrite("scan", <<>>, scan_command)
send_data ==
    \E data \in Payloads : CallWrite("send_data", data, send_data_bytes(data))
receive_data == \E b \in CallerBuffers : CallRead("receive_data", b)
play_audio ==
    \E data \in Payloads : CallWrite("play_audio", data, play_audio_bytes(data))
receive_audio == \E b \in CallerBuffers : CallRead("receive_audio", b)
get_status == CallWrite("get_status", <<>>, get_status_command)
set_notifications ==
    \E enable \in BOOLEAN :
        CallWrite("set_notifications", enable, set_notifications_command(enable))

(* self.csr8645.send_audio(audio_data): Csr8645 defines no send_audio, so *)
(* the call has no code to run: nothing is written and nothing returns    *)
send_audio ==
    \E audio_data \in Payloads :
        /\ pc = "idle"
        /\ pc' = "undefined"
        /\ op' = "send_audio"
        /\ arg' = audio_data
        /\ frame' = <<>>
        /\ cap' = 0
        /\ buf' = <<>>
        /\ rxd' = <<>>
        /\ io' = <<>>
        /\ res' = NoRes

(* uart.write(frame) returns: accepted (ok) or a Transport fault *)
UartWrite(ok) ==
    /\ pc = "write"
    /\ LET nx == AfterWrite(op, send_command(ok))
       IN  /\ pc' = nx.pc
           /\ res' = nx.res
           /\ cap' = IF nx.pc = "read" THEN BufLen(op) ELSE cap
           /\ buf' = IF nx.pc = "read" THEN Zeros(BufLen(op)) ELSE buf
    /\ io' = Append(io, WriteEv(frame, ok))
    /\ UNCHANGED <<op, arg, frame, rxd>>

uart_write_ok == UartWrite(TRUE)
uart_write_fault == UartWrite(FALSE)

(* uart.read(buf) returns Ok with the first bytes of the buffer overwritten *)
(* by what the module sent (at most the buffer's length)                    *)
uart_read_ok ==
    /\ pc = "read"
    /\ \E rx \in Replies :
          LET got == Take(rx, cap)
              b == got \o SubSeq(buf, Len(got) + 1, cap)
              nx == AfterRead(op, read_response(TRUE), b)
          IN  /\ rxd' = got
              /\ buf' = b
              /\ io' = Append(io, ReadEv(got, cap, TRUE))
              /\ pc' = nx.pc
              /\ res' = nx.res
    /\ UNCHANGED <<op, arg, frame, cap>>

(* uart.read(buf) returns a Transport fault *)
uart_read_fault ==
    /\ pc = "read"
    /\ LET nx == AfterRead(op, read_response(FALSE), buf)
       IN  /\ pc' = nx.pc
           /\ res' = nx.res
    /\ io' = Append(io, ReadEv(<<>>, cap, FALSE))
    /\ UNCHANGED <<op, arg, frame, cap, buf, rxd>>

(* The driver used directly, against a Transport that may deliver any      *)
(* bytes; the observers are not kept.                                       *)
Unobserved == UNCHANGED <<wire, prev, link, rxq, rxfrom, svc, ctl, callers>>

Next ==
    \/ set_name /\ Unobserved
    \/ get_name /\ Unobserved
    \/ set_pin /\ Unobserved
    \/ get_pin /\ Unobserved
    \/ set_baudrate /\ Unobserved
    \/ get_baudrate /\ Unobserved
    \/ connect /\ Unobserved
    \/ disconnect /\ Unobserved
    \/ check_connection_status /\ Unobserved
    \/ scan /\ Unobserved
    \/ send_data /\ Unobserved
    \/ receive_data /\ Unobserved
    \/ play_audio /\ Unobserved
    \/ receive_audio /\ Unobserved
    \/ get_status /\ Unobserved
    \/ set_notifications /\ Unobserved
    \/ uart_write_ok /\ Unobserved
    \/ uart_write_fault /\ Unobserved
    \/ uart_read_ok /\ Unobserved
    \/ uart_read_fault /\ Unobserved

Spec == Init /\ [][Next]_vars

(***************************************************************************)
(* The driver under an observer of the order of events.  wire holds the   *)
(* events of the previous operation (age 1) and of the current one        *)
(* (age 0): its call, each uart.write / uart.read that returned, and its  *)
(* return to the caller.  A write event keeps the bytes written.          *)
(***************************************************************************)
WireEvent(k, data) == [age |-> 0, k |-> k, data |-> data]

Aged(w) ==
    LET IsCurrent(e) == e.age = 0
        cur == SelectSeq(w, IsCurrent)
    IN  [i \in 1..Len(cur) |-> [age |-> 1, k |-> cur[i].k, data |-> <<>>]]

WireStep ==
    IF io' = <<>>
    THEN wire' = Aged(wire) \o <<WireEvent("call", <<>>)>>
    ELSE wire' = wire
                 \o <<WireEvent(io'[Len(io')].k, io'[Len(io')].data)>>
                 \o (IF pc' = "idle" THEN <<WireEvent("ret", <<>>)>> ELSE <<>>)

Ordered(A) ==
    A /\ WireStep /\ UNCHANGED <<prev, link, rxq, rxfrom, svc, ctl, callers>>

NextOrder ==
    \/ Ordered(set_name)
    \/ Ordered(get_name)
    \/ Ordered(set_pin)
    \/ Ordered(get_pin)
    \/ Ordered(set_baudrate)
    \/ Ordered(get_baudrate)
    \/ Ordered(connect)
    \/ Ordered(disconnect)
    \/ Ordered(check_connection_status)
    \/ Ordered(scan)
    \/ Ordered(send_data)
    \/ Ordered(receive_data)
    \/ Ordered(play_audio)
    \/ Ordered(receive_audio)
    \/ Ordered(get_status)
    \/ Ordered(set_notifications)
    \/ Ordered(uart_write_ok)
    \/ Ordered(uart_write_fault)
    \/ Ordered(uart_read_ok)
    \/ Ordered(uart_read_fault)

SpecOrder == Init /\ [][NextOrder]_vars

(***************************************************************************)
(* get_status called again and again, under an observer that keeps, at    *)
(* each call, what the Transport did during the operation before it and   *)
(* what that operation returned.                                          *)
(***************************************************************************)
PrevStep ==
    IF io' = <<>>
    THEN prev' = [seen |-> op # "none", io |-> io, res |-> res]
    ELSE prev' = prev

Remembered(A) ==
    A /\ PrevStep /\ UNCHANGED <<wire, link, rxq, rxfrom, svc, ctl, callers>>

NextStatus ==
    \/ Remembered(get_status)
    \/ Remembered(uart_write_ok)
    \/ Remembered(uart_write_fault)
    \/ Remembered(uart_read_ok)
    \/ Remembered(uart_read_fault)

SpecStatus == Init /\ [][NextStatus]_vars

(***************************************************************************)
(* connect, disconnect and check_connection_status in any order, under an *)
(* observer that keeps, at each call, the link state the operations so    *)
(* far have reported: a connect that returned Ok, a disconnect that       *)
(* returned Ok, or the boolean of a status query.                         *)
(***************************************************************************)
Reported(o, r, l) ==
    IF r.tag # "Ok" THEN l
    ELSE CASE o = "connect" -> "connected"
           [] o = "disconnect" -> "disconnected"
           [] o = "check_connection_status" ->
                IF r.val THEN "connected" ELSE "disconnected"
           [] OTHER -> l

LinkStep ==
    IF io' = <<>> THEN link' = Reported(op, res, link) ELSE link' = link

Linked(A) ==
    A /\ LinkStep /\ UNCHANGED <<wire, prev, rxq, rxfrom, svc, ctl, callers>>

NextLink ==
    \/ Linked(connect)
    \/ Linked(disconnect)
    \/ Linked(check_connection_status)
    \/ Linked(uart_write_ok)
    \/ Linked(uart_write_fault)
    \/ Linked(uart_read_ok)
    \/ Linked(uart_read_fault)

SpecLink == Init /\ [][NextLink]_vars

(***************************************************************************)
(* The driver used through BluetoothServiceImpl and AudioServiceImpl.     *)
(* Each service method is the one driver call in its body, with the       *)
(* method's own argument; svc keeps which method the caller used.         *)
(***************************************************************************)
Served(m, A) ==
    A /\ svc' = m /\ UNCHANGED <<wire, prev, link, rxq, rxfrom, ctl, callers>>

initialize == Served("BluetoothService::initialize", set_pin)
scan_devices == Served("BluetoothService::scan_devices", scan)
connect_to_device == Served("BluetoothService::connect_to_device", connect)
BluetoothService_send_data == Served("BluetoothService::send_data", send_data)
transmit_audio == Served("BluetoothService::transmit_audio", send_audio)
BluetoothService_receive_audio ==
    Served("BluetoothService::receive_audio", receive_audio)
AudioService_play_audio == Served("AudioService::play_audio", play_audio)
AudioService_receive_audio ==
    Served("AudioService::receive_audio", receive_audio)

NextService ==
    \/ initialize
    \/ scan_devices
    \/ connect_to_device
    \/ BluetoothService_send_data
    \/ transmit_audio
    \/ BluetoothService_receive_audio
    \/ AudioService_play_audio
    \/ AudioService_receive_audio
    \/ Served(svc, uart_write_ok)
    \/ Served(svc, uart_write_fault)
    \/ Served(svc, uart_read_ok)
    \/ Served(svc, uart_read_fault)

SpecService == Init /\ [][NextService]_vars

(***************************************************************************)
(* The driver against a module that sends one reply for each command it   *)
(* receives.  rxq holds the replies the Transport has received and no     *)
(* uart.read has taken yet, oldest first, each marked as the reply to the *)
(* command of the operation in progress ("own") or of one before it       *)
(* ("earlier"): a call turns every waiting reply into an earlier one, an  *)
(* accepted command adds its reply unless the Transport is full, and a    *)
(* uart.read that completes takes the oldest.  Between operations the     *)
(* Transport may also lose an unread reply (receiver overrun).            *)
(***************************************************************************)
CommandOps == ReadingOps \cup (WriteOnlyOps \ {"send_data", "play_audio"})

ModuleStep ==
    IF io' = <<>>
    THEN /\ rxq' = [i \in 1..Len(rxq) |-> "earlier"]
         /\ rxfrom' = "none"
    ELSE LET ev == io'[Len(io')]
         IN  CASE ev.k = "write" /\ ev.ok /\ op \in CommandOps ->
                    /\ rxq' = IF Len(rxq) < MaxPending
                              THEN Append(rxq, "own")
                              ELSE rxq
                    /\ rxfrom' = rxfrom
               [] ev.k = "read" /\ ev.ok ->
                    /\ rxfrom' = IF rxq = <<>> THEN "unsolicited" ELSE Head(rxq)
                    /\ rxq' = IF rxq = <<>> THEN rxq ELSE Tail(rxq)
               [] OTHER -> UNCHANGED <<rxq, rxfrom>>

Answered(A) ==
    A /\ ModuleStep /\ UNCHANGED <<wire, prev, link, svc, ctl, callers>>

rx_overrun ==
    /\ pc = "idle"
    /\ rxq # <<>>
    /\ rxq' = Tail(rxq)
    /\ UNCHANGED <<driver, wire, prev, link, rxfrom, svc, ctl, callers>>

NextModule ==
    \/ Answered(set_name)
    \/ Answered(get_name)
    \/ Answered(set_pin)
    \/ Answered(get_pin)
    \/ Answered(set_baudrate)
    \/ Answered(get_baudrate)
    \/ Answered(connect)
    \/ Answered(disconnect)
    \/ Answered(check_connection_status)
    \/ Answered(scan)
    \/ Answered(send_data)
    \/ Answered(receive_data)
    \/ Answered(play_audio)
    \/ Answered(receive_audio)
    \/ Answered(get_status)
    \/ Answered(set_notifications)
    \/ Answered(uart_write_ok)
    \/ Answered(uart_write_fault)
    \/ Answered(uart_read_ok)
    \/ Answered(uart_read_fault)
    \/ rx_overrun

SpecModule == Init /\ [][NextModule]_vars

(***************************************************************************)
(* AudioController::handle_audio_transmission(data) over AudioServiceImpl. *)
(* It calls receive_audio on a fresh buffer, leaves with the error when    *)
(* that failed, otherwise calls play_audio and returns what that returns.  *)
(* ctl.log keeps the Transport calls made during the whole call.           *)
(***************************************************************************)
(* The data argument is never read by the body: a few values suffice *)
AudioData == {<<>>, <<0>>, <<13, 255>>}

handle_audio_transmission ==
    \E data \in AudioData :
        /\ ctl.pc \in {"idle", "returned"}
        /\ CallRead("receive_audio", Zeros(AudioBufLen))
        /\ ctl' = [pc |-> "receive_audio", data |-> data, log |-> <<>>,
                   res |-> NoRes]
        /\ svc' = "AudioService::receive_audio"
        /\ UNCHANGED <<wire, prev, link, rxq, rxfrom, callers>>

(* self.audio_service.receive_audio(&mut buffer)? with an Err *)
receive_audio_failed ==
    /\ ctl.pc = "receive_audio"
    /\ pc = "idle"
    /\ res.tag = "Err"
    /\ ctl' = [ctl EXCEPT !.pc = "returned", !.res = res]
    /\ UNCHANGED <<driver, wire, prev, link, rxq, rxfrom, svc, callers>>

(* The bytes a bug would play: the caller's data *)
PlayedBytes_CallerData(data, buffer) == data
(* What self.audio_service.play_audio(&buffer) is given *)
PlayedBytes(data, buffer) == buffer

(* receive_audio returned Ok: self.audio_service.play_audio(&buffer) *)
play_received ==
    /\ ctl.pc = "receive_audio"
    /\ res.tag = "Ok"
    /\ LET bytes == PlayedBytes(ctl.data, buf)
       IN  CallWrite("play_audio", bytes, play_audio_bytes(bytes))
    /\ ctl' = [ctl EXCEPT !.pc = "play_audio"]
    /\ svc' = "AudioService::play_audio"
    /\ UNCHANGED <<wire, prev, link, rxq, rxfrom, callers>>

(* play_audio returned: its error leaves through ?, otherwise Ok(()) *)
play_audio_returned ==
    /\ ctl.pc = "play_audio"
    /\ pc = "idle"
    /\ ctl' = [ctl EXCEPT !.pc = "returned", !.res = res]
    /\ UNCHANGED <<driver, wire, prev, link, rxq, rxfrom, svc, callers>>

Controlled(A) ==
    /\ ctl.pc \in {"receive_audio", "play_audio"}
    /\ A
    /\ ctl' = [ctl EXCEPT !.log = Append(@, io'[Len(io')])]
    /\ UNCHANGED <<wire, prev, link, rxq, rxfrom, svc, callers>>

NextAudio ==
    \/ handle_audio_transmission
    \/ receive_audio_failed
    \/ play_received
    \/ play_audio_returned
    \/ Controlled(uart_write_ok)
    \/ Controlled(uart_write_fault)
    \/ Controlled(uart_read_ok)
    \/ Controlled(uart_read_fault)

SpecAudio == Init /\ [][NextAudio]_vars

(***************************************************************************)
(* Two callers, A and B, using the same driver and Transport for reading  *)
(* operations.  The operation of the caller that is running is in         *)
(* pc .. res and the other caller's is parked; the executor may run the   *)
(* other caller at any suspend point.  The module answers each command it *)
(* receives once, in order, and a uart.read completes with the oldest     *)
(* reply not yet read.  Callers that serialize externally start a call    *)
(* only while the other has none in progress; the driver itself checks    *)
(* nothing.  (The Transport does not fault here.)                         *)
(***************************************************************************)
Other(c) == IF c = "A" THEN "B" ELSE "A"

ModuleReply(command) ==
    IF command = check_connection_status_command THEN OK_CON ELSE <<49>>

(* Callers that take no care before calling *)
Acquired_NotHeld == TRUE
(* What external serialization asks of a caller before it calls *)
Acquired == serialized => parked.pc \notin {"write", "read"}

serialize_callers ==
    /\ ~serialized
    /\ op = "none"
    /\ parked.op = "none"
    /\ serialized' = TRUE
    /\ UNCHANGED <<driver, wire, prev, link, rxq, rxfrom, svc, ctl,
                   parked, who, mq, slog>>

poll_other ==
    /\ parked' = [pc |-> pc, op |-> op, arg |-> arg, frame |-> frame,
                  cap |-> cap, buf |-> buf, rxd |-> rxd, io |-> io,
                  res |-> res]
    /\ pc' = parked.pc
    /\ op' = parked.op
    /\ arg' = parked.arg
    /\ frame' = parked.frame
    /\ cap' = parked.cap
    /\ buf' = parked.buf
    /\ rxd' = parked.rxd
    /\ io' = parked.io
    /\ res' = parked.res
    /\ who' = Other(who)
    /\ UNCHANGED <<wire, prev, link, rxq, rxfrom, svc, ctl, serialized, mq,
                   slog>>

CalledBy(A) ==
    /\ Acquired
    /\ A
    /\ LET NotMine(e) == e.by # who IN slog' = SelectSeq(slog, NotMine)
    /\ UNCHANGED <<wire, prev, link, rxq, rxfrom, svc, ctl, parked, who,
                   serialized, mq>>

shared_write ==
    /\ uart_write_ok
    /\ mq' = Append(mq, [by |-> who, bytes |-> ModuleReply(frame)])
    /\ slog' = Append(slog, [by |-> who, k |-> "write", from |-> who])
    /\ UNCHANGED <<wire, prev, link, rxq, rxfrom, svc, ctl, parked, who,
                   serialized>>

shared_read ==
    /\ mq # <<>>
    /\ uart_read_ok
    /\ rxd' = Take(Head(mq).bytes, cap)
    /\ mq' = Tail(mq)
    /\ slog' = Append(slog, [by |-> who, k |-> "read", from |-> Head(mq).by])
    /\ UNCHANGED <<wire, prev, link, rxq, rxfrom, svc, ctl, parked, who,
                   serialized>>

NextShared ==
    \/ serialize_callers
    \/ poll_other
    \/ CalledBy(get_pin)
    \/ CalledBy(check_connection_status)
    \/ shared_write
    \/ shared_read

SpecShared == Init /\ [][NextShared]_vars

----------------------------------------------------------------------------
(* Vocabulary of the properties *)

Writes == {i \in 1..Len(io) : io[i].k = "write"}
Reads == {i \in 1..Len(io) : io[i].k = "read"}
WriteFaulted == \E i \in Writes : ~io[i].ok
Returned == pc = "idle" /\ op # "none"
ReadCompleted == \E i \in Reads : io[i].ok
IsErr(e) == res.tag = "Err" /\ res.val = e
StartsWith(s, p) == Len(s) >= Len(p) /\ SubSeq(s, 1, Len(p)) = p
EndsWith(s, p) == Len(s) >= Len(p) /\ SubSeq(s, Len(s) - Len(p) + 1, Len(s)) = p
LineFeeds(s) == {i \in 1..Len(s) : s[i] = 10}
WsAffixes == {<<>>, <<32>>, CRLF}
TextOps ==
    {"set_name", "get_name", "set_pin", "get_pin", "set_baudrate",
     "get_baudrate", "connect", "disconnect", "check_connection_status",
     "scan", "get_status", "set_notifications"}
DecimalText(b) ==
    CASE b = U32(0) -> <<48>>
      [] b = U32(9600) -> <<57, 54, 48, 48>>
      [] b = U32(115200) -> <<49, 49, 53, 50, 48, 48>>
      [] b = U32Max -> <<52, 50, 57, 52, 57, 54, 55, 50, 57, 53>>

(* C1: in connect and in every operation that writes a command and then     *)
(* reads a reply, a fault of the Transport write ends the operation with    *)
(* the transport error returned and without any Transport read; the bytes   *)
(* connect(address) writes are exactly "AT+CON" + address + "\r\n".         *)
C1_WriteFaultReturnedWithoutRead ==
    /\ (op \in ReadingOps \cup {"connect"} /\ WriteFaulted) =>
          /\ pc = "idle"
          /\ IsErr(UartError)
          /\ Reads = {}
    /\ op = "connect" =>
          \A i \in Writes : io[i].data = <<65, 84, 43, 67, 79, 78>> \o arg \o CRLF
    /\ (op = "connect" /\ arg = Address001122) =>
          \A i \in Writes :
              io[i].data = <<65, 84, 43, 67, 79, 78, 48, 48, 58, 49, 49, 58, 50,
                             50, 58, 51, 51, 58, 52, 52, 58, 53, 53, 13, 10>>

C1_Witness ==
    /\ Returned
    /\ op = "connect"
    /\ arg = Address001122
    /\ WriteFaulted
    /\ IsErr(UartError)

(* C2 as stated: every public operation performs exactly one Transport      *)
(* write, followed by at most one read, the read never before the write.    *)
C2_EveryOperationWritesOnce ==
    /\ Cardinality(Writes) <= 1
    /\ Cardinality(Reads) <= 1
    /\ \A r \in Reads : \E w \in Writes : w < r
    /\ Returned => Cardinality(Writes) = 1

(* C2 as amended: every operation other than receive_data and receive_audio *)
(* performs exactly one write followed by at most one read, never a read    *)
(* before the write; receive_data and receive_audio perform no write and    *)
(* exactly one read.                                                        *)
C2_WritesOnceExceptReceive ==
    /\ Cardinality(Writes) <= 1
    /\ Cardinality(Reads) <= 1
    /\ op \notin ReceiveOps =>
          /\ \A r \in Reads : \E w \in Writes : w < r
          /\ Returned => Cardinality(Writes) = 1
    /\ op \in ReceiveOps =>
          /\ Writes = {}
          /\ Returned => Cardinality(Reads) = 1

C2_Witness ==
    /\ Returned
    /\ op = "get_status"
    /\ Len(io) = 2
    /\ io[1].k = "write"
    /\ io[2].k = "read"
    /\ res.tag = "Ok"

(* C3: an operation that fails ends with that error returned: a faulted     *)
(* write or read is the operation's last Transport call and its result is   *)
(* the transport error; InvalidResponse is returned after one good write    *)
(* and one good read and nothing more; a reply that does not decode is      *)
(* answered with InvalidResponse and a number is returned only for a reply  *)
(* that holds a digit (no default value is made up).  The three failures    *)
(* are those the operation reports; get_baudrate's panic on a reply that is *)
(* not UTF-8 returns nothing and is the subject of C6.                      *)
C3_FailureIsTerminal ==
    /\ \A i \in 1..Len(io) :
          ~io[i].ok => /\ i = Len(io)
                       /\ pc = "idle"
                       /\ IsErr(UartError)
    /\ (Returned /\ IsErr(InvalidResponse)) =>
          /\ op \in ReadingOps
          /\ Len(io) = 2
          /\ io[1].k = "write" /\ io[1].ok
          /\ io[2].k = "read" /\ io[2].ok
    /\ (Returned /\ ReadCompleted /\ ~from_utf8(rxd)
           /\ op \in {"get_pin", "check_connection_status", "scan", "get_status"}) =>
          IsErr(InvalidResponse)
    /\ (Returned /\ op = "get_baudrate" /\ res.tag = "Ok") =>
          \E i \in 1..Len(rxd) : rxd[i] >= 48 /\ rxd[i] <= 57

C3_Witness ==
    /\ Returned
    /\ op = "scan"
    /\ ReadCompleted
    /\ ~from_utf8(rxd)
    /\ IsErr(InvalidResponse)
    /\ Len(io) = 2

(* C4 as stated: for every byte sequence received as the reply, valid       *)
(* UTF-8 or not, check_connection_status returns true iff the received      *)
(* bytes contain "OK+CON", and never an error because of the content.       *)
C4_StatusNeverFailsOnContent ==
    (Returned /\ op = "check_connection_status" /\ ReadCompleted) =>
        /\ res.tag = "Ok"
        /\ res.val = contains(rxd, OK_CON)

(* C4 as amended: for every received reply that is valid UTF-8 (the empty   *)
(* reply included) check_connection_status returns true iff the received    *)
(* bytes contain "OK+CON" and false otherwise; for a reply that is not      *)
(* valid UTF-8 it returns InvalidResponse.                                  *)
C4_StatusIsContainsOnUtf8 ==
    (Returned /\ op = "check_connection_status" /\ ReadCompleted) =>
        IF from_utf8(rxd)
        THEN res.tag = "Ok" /\ res.val = contains(rxd, OK_CON)
        ELSE IsErr(InvalidResponse)

C4_Witness ==
    /\ Returned
    /\ op = "check_connection_status"
    /\ ReadCompleted
    /\ rxd = <<32>> \o OK_CON \o CRLF
    /\ res.tag = "Ok"
    /\ res.val = TRUE

(* C5: when the reply to the GetBaudrate query is the decimal text of a     *)
(* baud rate b, possibly surrounded by whitespace, and shorter than the     *)
(* 64-byte receive buffer, get_baudrate returns b.                          *)
C5_BaudrateRoundTrip ==
    \A b \in BaudRates : \A pre \in WsAffixes : \A post \in WsAffixes :
        (/\ op = "get_baudrate"
         /\ ReadCompleted
         /\ rxd = pre \o DecimalText(b) \o post
         /\ Len(rxd) < ControlBufLen) =>
            /\ Returned
            /\ res.tag = "Ok"
            /\ res.val = b

(* C6: when the reply to get_baudrate is not valid UTF-8, or its trimmed    *)
(* text is not a base-10 unsigned integer, get_baudrate returns             *)
(* InvalidResponse: it neither panics nor returns a number.                 *)
C6_BadBaudrateReplyIsInvalidResponse ==
    (/\ op = "get_baudrate"
     /\ ReadCompleted
     /\ (~from_utf8(rxd) \/ ~from_str_radix(trim(rxd)).ok)) =>
        /\ Returned
        /\ IsErr(InvalidResponse)

(* C7: the decoded result is made of the bytes actually received and does   *)
(* not include the unfilled zero remainder of the receive buffer: get_pin   *)
(* and get_status return the received text, scan the segments of the        *)
(* received text, get_baudrate the number the received text holds.          *)
C7_DecodeUsesReceivedBytesOnly ==
    (Returned /\ ReadCompleted /\ res.tag = "Ok") =>
        /\ op \in {"get_pin", "get_status"} => res.val = rxd
        /\ op = "scan" => res.val = split(rxd)
        /\ op = "check_connection_status" => res.val = contains(rxd, OK_CON)
        /\ op = "get_baudrate" => res.val = from_str_radix(trim(rxd)).val

(* C8: every text command frame written to the Transport begins with "AT"   *)
(* and is terminated by "\r\n".                                             *)
C8_TextFramesAreTerminatedLines ==
    op \in TextOps =>
        \A i \in Writes :
            /\ StartsWith(io[i].data, <<65, 84>>)
            /\ EndsWith(io[i].data, CRLF)
            /\ Len(io[i].data) >= 4

(* C9: set_name(s) writes exactly "AT+NAME=" + s + "\r\n" and nothing else, *)
(* set_pin(p) exactly "AT+PIN=" + p + "\r\n", and set_baudrate(b) exactly   *)
(* "AT+BAUD=" + decimal(b) + "\r\n".                                        *)
C9_SetCommandsWriteExactFrame ==
    op \in {"set_name", "set_pin", "set_baudrate"} =>
        LET expected ==
                CASE op = "set_name" ->
                        <<65, 84, 43, 78, 65, 77, 69, 61>> \o arg \o CRLF
                  [] op = "set_pin" ->
                        <<65, 84, 43, 80, 73, 78, 61>> \o arg \o CRLF
                  [] op = "set_baudrate" ->
                        <<65, 84, 43, 66, 65, 85, 68, 61>> \o DecimalText(arg) \o CRLF
        IN  /\ Reads = {}
            /\ Len(io) <= 1
            /\ \A i \in Writes : io[i].data = expected
            /\ Returned => Len(io) = 1
            /\ (Returned /\ io[1].ok) => res = Ok(Unit)

C9_Witness ==
    /\ Returned
    /\ op = "set_baudrate"
    /\ arg = U32Max
    /\ Len(io) = 1
    /\ io[1].ok
    /\ io[1].data = <<65, 84, 43, 66, 65, 85, 68, 61,
                      52, 50, 57, 52, 57, 54, 55, 50, 57, 53, 13, 10>>

(* C10: scan returns the received reply split on line-feed: a reply with no *)
(* line-feed gives the single-element list of the whole reply, the reply    *)
(* "AA:BB\nCC:DD\n" gives ["AA:BB", "CC:DD", ""], and the number of entries *)
(* is the number of line-feeds plus one.                                    *)
C10_ScanSplitsReceivedReply ==
    (Returned /\ op = "scan" /\ ReadCompleted /\ res.tag = "Ok") =>
        /\ LineFeeds(rxd) = {} => res.val = <<rxd>>
        /\ rxd = ScanReply =>
              res.val = <<<<65, 65, 58, 66, 66>>, <<67, 67, 58, 68, 68>>, <<>>>>
        /\ Len(res.val) = Cardinality(LineFeeds(rxd)) + 1

(* C11: on a successful exchange whose reply is valid UTF-8, get_name,      *)
(* get_pin and get_status each return the reply text exactly as received.   *)
C11_TextIsReturnedAsReceived ==
    (/\ Returned
     /\ op \in {"get_name", "get_pin", "get_status"}
     /\ ReadCompleted
     /\ from_utf8(rxd)) =>
        /\ res.tag = "Ok"
        /\ ResultType(op) = "String"
        /\ res.val = rxd

(* C12: get_pin returns InvalidResponse exactly when the bytes received are *)
(* not valid UTF-8 and succeeds on every other reply; a Transport fault on  *)
(* the read is returned as the transport error, never as InvalidResponse.   *)
C12_GetPinFailsOnlyOnBadUtf8 ==
    (Returned /\ op = "get_pin") =>
        /\ ReadCompleted => IF from_utf8(rxd) THEN res.tag = "Ok"
                            ELSE IsErr(InvalidResponse)
        /\ (\E i \in Reads : ~io[i].ok) => IsErr(UartError)
        /\ IsErr(InvalidResponse) => (ReadCompleted /\ ~from_utf8(rxd))

C12_Witness ==
    /\ Returned
    /\ op = "get_pin"
    /\ ReadCompleted
    /\ rxd = <<194>>
    /\ IsErr(InvalidResponse)

(* C17: send_data(bytes) and play_audio(bytes) write exactly the caller's   *)
(* payload bytes, with no AT prefix, terminator or other framing, and       *)
(* perform no read.                                                         *)
C17_PayloadIsWrittenVerbatim ==
    op \in {"send_data", "play_audio"} =>
        /\ Reads = {}
        /\ pc # "read"
        /\ Len(io) <= 1
        /\ \A i \in Writes : io[i].data = arg
        /\ Returned => Len(io) = 1

C17_Witness ==
    /\ Returned
    /\ op = "play_audio"
    /\ arg = <<13, 255>>
    /\ Len(io) = 1
    /\ io[1].ok
    /\ io[1].data = <<13, 255>>
    /\ res.tag = "Ok"

(* C18: each reading operation hands the Transport a buffer of the size     *)
(* fixed for its command class: 64 bytes for get_name, get_pin,             *)
(* get_baudrate, check_connection_status and get_status, 512 bytes for      *)
(* scan, and the caller's buffer length for receive_data and receive_audio. *)
C18_ReadBufferSizePerClass ==
    LET want == IF op = "scan" THEN 512
                ELSE IF op \in ReceiveOps THEN Len(arg)
                ELSE 64
    IN  /\ pc = "read" => (cap = want /\ Len(buf) = want)
        /\ \A i \in Reads : io[i].cap = want
        /\ (Returned /\ ReadCompleted) => Len(buf) = want

C18_Witness ==
    /\ Returned
    /\ op = "scan"
    /\ ReadCompleted
    /\ io[2].cap = 512
    /\ Len(rxd) = 512

(***************************************************************************)
(* C13: operations of a single caller complete in issue order.  All the   *)
(* events of the previous operation precede those of the current one;     *)
(* the previous operation ran from its call through its write and its     *)
(* read (as far as it has them) to its return before the current one was  *)
(* called, so its read completed before the current write began; the      *)
(* current operation is somewhere along the same course; what it wrote    *)
(* is the frame it was called with; and these events are exactly the      *)
(* Transport calls the operation made.                                    *)
(***************************************************************************)
Kinds(a) ==
    LET OfAge(e) == e.age = a
        evs == SelectSeq(wire, OfAge)
    IN  [i \in 1..Len(evs) |-> evs[i].k]

OpCourses ==
    { <<"call", "write", "ret">>,
      <<"call", "write", "read", "ret">>,
      <<"call", "read", "ret">> }

IsPrefix(s, t) == Len(s) <= Len(t) /\ s = Take(t, Len(s))

C13_CompleteInIssueOrder ==
    /\ \A i, j \in 1..Len(wire) : i < j => wire[i].age >= wire[j].age
    /\ Kinds(1) = <<>> \/ Kinds(1) \in OpCourses
    /\ Kinds(0) = <<>> \/ \E c \in OpCourses : IsPrefix(Kinds(0), c)
    /\ \A i \in 1..Len(wire) :
          (wire[i].age = 0 /\ wire[i].k = "write") => wire[i].data = frame
    /\ LET IsTransport(k) == k \in {"write", "read"}
       IN  SelectSeq(Kinds(0), IsTransport) = [i \in 1..Len(io) |-> io[i].k]

C13_Witness ==
    /\ Returned
    /\ op = "get_pin"
    /\ Kinds(1) = <<"call", "write", "ret">>
    /\ Kinds(0) = <<"call", "write", "read", "ret">>
    /\ wire[5].data = get_pin_command

(***************************************************************************)
(* C14: get_status repeated against an unchanged module returns the same  *)
(* thing.  When a get_status follows a get_status and the Transport       *)
(* behaved the same in both (same write outcome, same read outcome, same  *)
(* bytes received), the second returns what the first returned: nothing   *)
(* the driver keeps between calls enters the result.                      *)
(***************************************************************************)
C14_GetStatusRepeats ==
    (Returned /\ op = "get_status" /\ prev.seen /\ prev.io = io) =>
        /\ res.tag = prev.res.tag
        /\ res.val = prev.res.val

C14_Witness ==
    /\ Returned
    /\ op = "get_status"
    /\ prev.seen
    /\ prev.io = io
    /\ ReadCompleted
    /\ rxd = <<49, 10>>
    /\ res.tag = "Ok"
    /\ res.val = prev.res.val

(***************************************************************************)
(* C15: the driver does not cache link state.  Whatever the earlier       *)
(* connect, disconnect and status calls reported, a check_connection_     *)
(* status writes the query "AT+CON?\r\n", reads once when the write was   *)
(* accepted, and answers from the bytes that read received: TRUE exactly  *)
(* when they contain "OK+CON" (C4: bytes that are not UTF-8 fail with     *)
(* InvalidResponse instead).                                              *)
(***************************************************************************)
C15_StatusAlwaysAsksTheModule ==
    op = "check_connection_status" =>
        /\ \A i \in Writes : io[i].data = <<65, 84, 43, 67, 79, 78, 63, 13, 10>>
        /\ Returned =>
              /\ Len(io) >= 1
              /\ io[1].k = "write"
              /\ io[1].ok => (Len(io) = 2 /\ io[2].k = "read")
        /\ (Returned /\ ReadCompleted) =>
              IF from_utf8(rxd)
              THEN res.tag = "Ok" /\ res.val = contains(rxd, OK_CON)
              ELSE IsErr(InvalidResponse)

C15_Witness ==
    /\ Returned
    /\ op = "check_connection_status"
    /\ link = "connected"
    /\ ReadCompleted
    /\ rxd = <<49, 10>>
    /\ res.tag = "Ok"
    /\ res.val = FALSE

(***************************************************************************)
(* C16: no timeout or cancellation.  An operation returns if and only if  *)
(* each Transport suspend point it reaches completes or faults: from its  *)
(* call until it returns it is suspended on a uart.write or a uart.read   *)
(* (so it returns once the Transport has completed or faulted each of     *)
(* its at most two calls), and it leaves a suspend point only by that     *)
(* Transport call returning (so an unanswered read keeps it from          *)
(* returning for ever).                                                   *)
(***************************************************************************)
InProgress == pc \in {"write", "read"}

C16_ReturnsIffTransportReturns ==
    [][/\ pc' # "idle" => (pc' \in {"write", "read"} /\ Len(io') < 2)
       /\ (InProgress /\ pc' # pc) => Len(io') = Len(io) + 1
       /\ Len(io') > Len(io) => (InProgress /\ Len(io') = Len(io) + 1)
      ]_<<pc, io>>

(***************************************************************************)
(* C19: each service method delegates 1:1 to one existing driver          *)
(* operation.  A call through a service method runs the driver operation  *)
(* the claim names for it, given the method's argument; what is written   *)
(* to the Transport is that operation's frame (the PIN, scan or connect   *)
(* command, or the data / audio bytes verbatim), only receive_audio       *)
(* reads without writing, and the call is at one of the driver's suspend  *)
(* points or has returned what the driver returned.                       *)
(***************************************************************************)
DelegatesOf(m) ==
    CASE m = "BluetoothService::initialize" -> {"set_pin"}
      [] m = "BluetoothService::scan_devices" -> {"scan"}
      [] m = "BluetoothService::connect_to_device" -> {"connect"}
      [] m = "BluetoothService::send_data" -> {"send_data"}
      [] m = "BluetoothService::transmit_audio" -> {"send_data", "play_audio"}
      [] m = "BluetoothService::receive_audio" -> {"receive_audio"}
      [] m = "AudioService::receive_audio" -> {"receive_audio"}
      [] m = "AudioService::play_audio" -> {"play_audio"}
      [] OTHER -> {}

C19_ServiceDelegatesOneToOne ==
    svc # "none" =>
        /\ op \in DelegatesOf(svc)
        /\ pc \in {"idle", "write", "read"}
        /\ \A i \in Writes :
              io[i].data =
                CASE svc = "BluetoothService::initialize" ->
                       <<65, 84, 43, 80, 73, 78, 61>> \o arg \o CRLF
                  [] svc = "BluetoothService::scan_devices" ->
                       <<65, 84, 43, 68, 73, 83, 67, 63, 13, 10>>
                  [] svc = "BluetoothService::connect_to_device" ->
                       <<65, 84, 43, 67, 79, 78>> \o arg \o CRLF
                  [] OTHER -> arg
        /\ op = "receive_audio" => (pc # "write" /\ Writes = {})
        /\ op # "receive_audio" => (io # <<>> => io[1].k = "write")
        /\ Returned => (res.tag \in {"Ok", "Err"} /\ Len(io) >= 1)

(***************************************************************************)
(* C20: against a module that sends one reply per command, what a reading *)
(* operation (get_pin, get_baudrate, check_connection_status, scan,       *)
(* get_status) decodes is the reply to the command that operation wrote,  *)
(* not the reply to an earlier command.                                   *)
(***************************************************************************)
C20_DecodesOwnReply ==
    (/\ Returned
     /\ op \in {"get_pin", "get_baudrate", "check_connection_status", "scan",
                "get_status"}
     /\ ReadCompleted) => rxfrom = "own"

C21_OnlySerializationKeepsOperationsApart ==
    serialized =>
        /\ ~(pc \in {"write", "read"} /\ parked.pc \in {"write", "read"})
        /\ \A i \in 1..Len(slog) : slog[i].from = slog[i].by
        /\ Len(mq) <= 1
        /\ Returned => rxd = ModuleReply(frame)

C21_Witness ==
    /\ ~serialized
    /\ slog = << [by |-> "A", k |-> "write", from |-> "A"],
                 [by |-> "B", k |-> "write", from |-> "B"],
                 [by |-> "B", k |-> "read", from |-> "A"],
                 [by |-> "A", k |-> "read", from |-> "B"] >>
    /\ who = "A"
    /\ Returned
    /\ op = "get_pin"
    /\ rxd = OK_CON
    /\ res.tag = "Ok"
    /\ parked.op = "check_connection_status"
    /\ parked.rxd = <<49>>
    /\ parked.res.tag = "Ok"
    /\ parked.res.val = FALSE

====
